---- MODULE Spec2Model ----
(***************************************************************************)
(* Winch motor tools: the request/response correlator of winch_move.py     *)
(* (send_message, receive_messages, wait_for_response over the module      *)
(* globals last_command, response_queue and running), the command macros   *)
(* execute_command_sequence_up / _down built on it, and the text parsing   *)
(* of parse_byte_string; the stress test of winch_stresstest.py with its   *)
(* statistics; RealTimeFilter and the polling loop read_torque_loop of     *)
(* winch_torque.py / winch_torque_v2.py.                                   *)
(*                                                                         *)
(* Conventions.  A payload is a sequence of byte values 0..255.  Python's  *)
(* None for a payload or a tag is the empty sequence (both are falsy in    *)
(* the code's `if data:` / `if last_command and ...` tests).  An optional  *)
(* message (the result of bus.recv or of wait_for_response) is a sequence  *)
(* of zero or one message records.  A text line is the sequence of its     *)
(* whitespace-separated tokens, a token the sequence of its characters,    *)
(* a character a number: 0..15 for the digits 0..9 and A..F, 26..31 for    *)
(* the lower-case a..f, Minus for the sign, NonHex for any other one.      *)
(* Time is counted in units of the polling sleep of wait_for_response      *)
(* (10 ms); only that sleep lets time pass.                                *)
(*                                                                         *)
(* The fields epoch and late of a message, and the variables nsends,       *)
(* accepted, timedOut, expected and arrivals are history variables:        *)
(* no action's guard or program variable reads them.                       *)
(***************************************************************************)
EXTENDS Integers, Sequences, FiniteSets, TLC

VARIABLES
    last_command,    \* winch_move.py global: tag of the last send, None at start
    response_queue,  \* winch_move.py global: Queue of accepted messages
    running,         \* winch_move.py global: receiver's loop flag
    pcR,             \* receiver thread: position in receive_messages
    message,         \* receiver thread: local `message`
    pcM,             \* main thread: position
    step,            \* main thread: macro step in progress, 0 outside a macro
    direction,       \* main thread: which macro runs ("up" / "down" / "-")
    data,            \* main thread: payload being sent
    sendResult,      \* main thread: what the last send_message returned
    elapsed,         \* wait_for_response: time.time() - start_time
    response,        \* main thread: what the last wait_for_response returned
    returned,        \* main thread: the call that returned last ("send" / "wait"),
                     \*              "-" while a call is in progress
    response3,       \* macro: local `response3`
    outcome,         \* macro: the closing line it printed
    bus_sent,        \* transport: the payloads handed to bus.send, in order
    bus_open,        \* transport: FALSE after bus.shutdown()
    nops,            \* number of calls the harness made (bounded)
    nrecv,           \* number of frames bus.recv delivered (bounded)
    nsends,          \* history: number of times send_message set the tag
    accepted,        \* history: messages queued since the tag was last set
    timedOut,        \* history: the last wait timed out and no send followed
    expected,        \* history: at the start of a wait, the first queued message
                     \*          that arrived for the current send (or none)
    arrivals,        \* history: the frames bus.recv delivered since the tag was last set
    verdict,         \* tag comparison on its own: what the comparisons answered
    stop_event,      \* winch_stresstest.py global: the Event, TRUE when set
    last_sent_time,  \* winch_stresstest.py global
    response_times,  \* winch_stresstest.py global: the list of samples
    now,             \* winch_stresstest.py: time.time(), in sending intervals
    start_time,      \* winch_stresstest.py main: local `start_time`
    sent_count,      \* winch_stresstest.py main: local `sent_count`
    pcSM,            \* winch_stresstest.py main thread: position
    pcSR,            \* winch_stresstest.py receiver thread: position
    sMessage,        \* winch_stresstest.py receiver: local `message`
    recv_time,       \* winch_stresstest.py receiver: local `recv_time`
    sBusOpen,        \* winch_stresstest.py transport: FALSE after bus.shutdown()
    sRecv,           \* number of frames the stress test's bus.recv delivered (bounded)
    report,          \* winch_stresstest.py: what analyze_response_times printed,
                     \*          empty before it ran
    filters,         \* winch_torque_v2.py: the RealTimeFilter instances, by number
    feed,            \* the raw values the filters are given, in order
    fed,             \* history: how many values each instance was given, and
                     \*          what each update returned
    library,         \* the installed scipy: whether savgol_filter takes an even
                     \*          window_length ("any") or refuses it ("odd_only")
    pcT,             \* winch_torque*.py read_torque_loop thread: position
    pcTMain,         \* winch_torque*.py main thread: position
    tStopEvent,      \* winch_torque*.py global stop_event, TRUE when set
    tMessage,        \* read_torque_loop: local `message`
    data_log,        \* winch_torque*.py global: the logged samples
    tSent,           \* history: frames read_torque_loop handed to bus.send
    tRecvd,          \* history: bus.recv calls read_torque_loop made
    tAllowed         \* history: what tSent may reach once the flag is set

vars == <<last_command, response_queue, running, pcR, message, pcM, step,
          direction, data, sendResult, elapsed, response, returned, response3,
          outcome, bus_sent, bus_open, nops, nrecv, nsends, accepted, timedOut,
          expected, arrivals, verdict, stop_event, last_sent_time,
          response_times, now, start_time, sent_count, pcSM, pcSR, sMessage,
          recv_time, sBusOpen, sRecv, report, filters, feed, fed,
          library, pcT, pcTMain, tStopEvent, tMessage, data_log, tSent, tRecvd,
          tAllowed>>

(***************************************************************************)
(* Bounds of the model.                                                    *)
(***************************************************************************)
\* calls (send_message / wait_for_response) the harness makes in one run
MaxOps == 3
\* frames the bus delivers in one run
MaxRecv == 2
\* polling sleeps that fit in the timeout of wait_for_response (200 in the code)
TIMEOUT == 2

(***************************************************************************)
(* Program constants.                                                      *)
(***************************************************************************)
\* time.sleep(0.01): one time unit
SLEEP == 1
\* a character that is no hex digit
NonHex == 16
\* the character "-"
Minus == 17

None == <<>>

(***************************************************************************)
(* Text: parse_byte_string and format_can_data.                            *)
(***************************************************************************)
\* the value of a hex digit, either case
HexDigit(c) == IF c > 25 THEN c - 16 ELSE c

RECURSIVE HexMagnitude(_)
\* the number a sequence of hex digits writes, most significant first
HexMagnitude(digits) ==
    IF digits = <<>> THEN 0
    ELSE 16 * HexMagnitude(SubSeq(digits, 1, Len(digits) - 1))
         + HexDigit(digits[Len(digits)])

\* a token without its sign
Unsigned(part) ==
    IF part # <<>> /\ part[1] = Minus THEN Tail(part) ELSE part

\* int(part, 16) for a token of hex digits with or without a sign
HexValue(part) ==
    IF part # <<>> /\ part[1] = Minus
    THEN 0 - HexMagnitude(Tail(part))
    ELSE HexMagnitude(part)

\* int(part, 16) raises ValueError
IsBadToken(part) ==
    \/ Unsigned(part) = <<>>
    \/ \E i \in 1..Len(Unsigned(part)) : Unsigned(part)[i] \in {NonHex, Minus}

\* parse_byte_string: 8 bytes, or None; bytes(data) raises ValueError for a
\* value outside 0..255
parse_byte_string(parts) ==
    IF Len(parts) # 8 THEN None
    ELSE IF \E i \in 1..8 :
                \/ IsBadToken(parts[i])
                \/ HexValue(parts[i]) > 255
                \/ HexValue(parts[i]) < 0
         THEN None
         ELSE [i \in 1..8 |-> HexValue(parts[i])]

\* f"{byte:X}": no padding to two digits
FormatNoPad(d) ==
    [i \in 1..Len(d) |->
        IF d[i] < 16 THEN <<d[i]>> ELSE <<d[i] \div 16, d[i] % 16>>]

\* f"{byte:02X}" for each byte: the tokens of format_can_data's line
format_can_data(d) ==
    [i \in 1..Len(d) |-> <<d[i] \div 16, d[i] % 16>>]

(***************************************************************************)
(* The macro's literals, as the text the code parses.                      *)
(***************************************************************************)
TextStep1Up   == <<<<9,4>>, <<0,0>>, <<0,0>>, <<10,0>>, <<12,1>>, <<13,0>>, <<0,7>>, <<0,0>>>>
TextStep1Down == <<<<9,4>>, <<0,0>>, <<0,0>>, <<10,0>>, <<4,1>>, <<13,0>>, <<0,7>>, <<0,0>>>>
TextStep2     == <<<<9,1>>, <<0,0>>, <<0,0>>, <<0,0>>, <<0,0>>, <<0,0>>, <<0,0>>, <<0,0>>>>
TextStep3     == <<<<11,4>>, <<1,3>>, <<0,0>>, <<0,0>>, <<0,0>>, <<0,0>>, <<0,0>>, <<0,0>>>>

(***************************************************************************)
(* The byte splice of step 4.                                              *)
(***************************************************************************)
\* response3.data[-4:]
last_four_bytes(d) ==
    IF Len(d) <= 4 THEN d ELSE SubSeq(d, Len(d) - 3, Len(d))

Zeros(n) == [i \in 1..n |-> 0]

\* the zero bytes put in front instead of behind
NormalizeHeadPad(f) ==
    IF Len(f) > 8 THEN SubSeq(f, 1, 8)
    ELSE IF Len(f) < 8 THEN Zeros(8 - Len(f)) \o f
    ELSE f

\* "Ensure it's exactly 8 bytes"
Normalize8(f) ==
    IF Len(f) > 8 THEN SubSeq(f, 1, 8)
    ELSE IF Len(f) < 8 THEN f \o Zeros(8 - Len(f))
    ELSE f

\* bytes([0x95]) + last_four_bytes + bytes([0x32, 0x14, 0x00]), normalized
final_command(d) ==
    Normalize8(<<149>> \o last_four_bytes(d) \o <<50, 20, 0>>)

(***************************************************************************)
(* Tags.                                                                   *)
(***************************************************************************)
\* data[:2]
\* the tag keeps the first byte only
PrefixOne(d) == IF Len(d) <= 1 THEN d ELSE SubSeq(d, 1, 1)

Prefix2(d) == IF Len(d) <= 2 THEN d ELSE SubSeq(d, 1, 2)

(***************************************************************************)
(* The environment: what the bus may deliver, what a caller may pass.      *)
(***************************************************************************)
Reply94   == <<148, 0, 1, 2, 3, 4, 5, 6>>
Reply91   == <<145, 0, 0, 0, 11, 12, 13, 14>>
ReplyB4   == <<180, 19, 0, 0, 170, 187, 204, 221>>
Reply0113 == <<1, 19, 0, 0, 170, 187, 204, 221>>
ShortB4   == <<180, 19, 7>>

\* frames the bus delivers to a caller of the correlator
CallerFrames == {Reply94, ReplyB4, Reply0113}

\* frames the bus delivers while a macro runs
MacroFrames == {Reply94, Reply91, ReplyB4, Reply0113, ShortB4}

\* payloads a caller passes to send_message: one of 8 bytes, one short, one long
SendInputs ==
    { <<148, 0, 0, 160, 193, 208, 7, 0>>,
      <<180, 19, 0>>,
      <<145, 0, 0, 0, 0, 0, 0, 0, 0>> }

\* lines a caller passes to parse_byte_string: well formed, 7 tokens, a token
\* that is no hex number, a token above FF
TextInputs ==
    { TextStep3,
      SubSeq(TextStep3, 1, 7),
      <<<<11,4>>, <<1,NonHex>>, <<0,0>>, <<0,0>>, <<0,0>>, <<0,0>>, <<0,0>>, <<0,0>>>>,
      <<<<11,4>>, <<1,0,0>>, <<0,0>>, <<0,0>>, <<0,0>>, <<0,0>>, <<0,0>>, <<0,0>>>> }

(***************************************************************************)
(* Where the main thread goes when send_message / wait_for_response        *)
(* returns: back to the caller (step 0) or on with the macro (step 1..4).  *)
(***************************************************************************)
\* step 1 goes on to step 2 without waiting for its response
AfterSendNoWait ==
    IF step = 0 THEN "idle" ELSE IF step = 1 THEN "step2" ELSE "wait_start"

AfterSend == IF step = 0 THEN "idle" ELSE "wait_start"

\* a missing response to step 1 or 2 ends the macro
AfterWaitAbort ==
    CASE step = 0 -> "idle"
      [] step = 1 -> IF response = <<>> THEN "mainloop" ELSE "step2"
      [] step = 2 -> IF response = <<>> THEN "mainloop" ELSE "sleep2"
      [] step = 3 -> "extract"
      [] OTHER    -> "report"

AfterWait ==
    CASE step = 0 -> "idle"
      [] step = 1 -> "step2"
      [] step = 2 -> "sleep2"
      [] step = 3 -> "extract"
      [] OTHER    -> "report"

\* the variables of the other programs and of the functions taken alone
stressVars == <<stop_event, last_sent_time, response_times, now, start_time,
                sent_count, pcSM, pcSR, sMessage, recv_time, sBusOpen, sRecv,
                report>>
filterVars == <<filters, feed, fed, library>>
torqueVars == <<pcT, pcTMain, tStopEvent, tMessage, data_log, tSent, tRecvd,
                tAllowed>>
otherVars  == <<verdict, stressVars, filterVars, torqueVars>>

mainVars   == <<pcM, step, direction, data, sendResult, elapsed, response,
                returned, response3, outcome, nops>>
recvVars   == <<pcR, message, nrecv>>
macroVars  == <<step, direction, response3, outcome>>
histVars   == <<nsends, accepted, timedOut, expected, arrivals>>
globals    == <<last_command, response_queue, running>>

(***************************************************************************)
(* send_message (winch_move.py).                                           *)
(***************************************************************************)
\* the payload passes whatever its length
LengthNeverWrong(d) == FALSE

\* len(data) != 8
LengthWrong(d) == Len(d) # 8

SendCheckLen ==
    /\ pcM = "send_check"
    /\ IF LengthWrong(data)
       THEN /\ sendResult' = "False"
            /\ returned' = "send"
            /\ pcM' = AfterSend
       ELSE /\ pcM' = "send_tag"
            /\ UNCHANGED <<sendResult, returned>>
    /\ UNCHANGED <<otherVars, globals, recvVars, macroVars, histVars,
                   data, elapsed, response, bus_sent, bus_open, nops>>

\* last_command = data[:2]
SendSetTag ==
    /\ pcM = "send_tag"
    /\ last_command' = Prefix2(data)
    /\ pcM' = "send_bus"
    /\ nsends' = nsends + 1
    /\ accepted' = 0
    /\ timedOut' = FALSE
    /\ expected' = <<>>
    /\ arrivals' = {}
    /\ UNCHANGED <<otherVars, response_queue, running, recvVars, macroVars, data,
                   sendResult, elapsed, response, returned, bus_sent, bus_open, nops>>

\* bus.send(message) returns
BusSendOk ==
    /\ pcM = "send_bus"
    /\ bus_open
    /\ bus_sent' = Append(bus_sent, [data |-> data, ok |-> TRUE])
    /\ sendResult' = "True"
    /\ returned' = "send"
    /\ pcM' = AfterSend
    /\ UNCHANGED <<otherVars, globals, recvVars, macroVars, histVars,
                   data, elapsed, response, bus_open, nops>>

\* bus.send(message) raises
BusSendRaise ==
    /\ pcM = "send_bus"
    /\ bus_sent' = Append(bus_sent, [data |-> data, ok |-> FALSE])
    /\ sendResult' = "False"
    /\ returned' = "send"
    /\ pcM' = AfterSend
    /\ UNCHANGED <<otherVars, globals, recvVars, macroVars, histVars,
                   data, elapsed, response, bus_open, nops>>

send_message == SendCheckLen \/ SendSetTag \/ BusSendOk \/ BusSendRaise

(***************************************************************************)
(* wait_for_response (winch_move.py).                                      *)
(***************************************************************************)
\* the first queued message that arrived after the current tag was set
FirstFresh(q) ==
    IF \E i \in 1..Len(q) : q[i].epoch = nsends
    THEN LET i == CHOOSE i \in 1..Len(q) :
                     /\ q[i].epoch = nsends
                     /\ \A j \in 1..(i-1) : q[j].epoch # nsends
         IN  <<q[i]>>
    ELSE <<>>

\* start_time = time.time()
WaitStart ==
    /\ pcM = "wait_start"
    /\ elapsed' = 0
    /\ pcM' = "wait_loop"
    /\ expected' = FirstFresh(response_queue)
    /\ UNCHANGED <<otherVars, globals, recvVars, macroVars, data, sendResult, response,
                   returned, bus_sent, bus_open, nops, nsends, accepted,
                   timedOut, arrivals>>

\* the comparison of the while condition turned round
ExpiredFlipped(t) == ~(t > TIMEOUT)

\* not (time.time() - start_time < timeout)
Expired(t) == ~(t < TIMEOUT)

\* the while condition fails: return None
WaitTimeout ==
    /\ pcM = "wait_loop"
    /\ Expired(elapsed)
    /\ response' = <<>>
    /\ returned' = "wait"
    /\ pcM' = AfterWait
    /\ timedOut' = TRUE
    /\ UNCHANGED <<otherVars, globals, recvVars, macroVars, data, sendResult, elapsed,
                   bus_sent, bus_open, nops, nsends, accepted, expected, arrivals>>

\* return response_queue.get(block=False)
WaitGet ==
    /\ pcM = "wait_loop"
    /\ ~Expired(elapsed)
    /\ response_queue # <<>>
    /\ response' = <<Head(response_queue)>>
    /\ response_queue' = Tail(response_queue)
    /\ returned' = "wait"
    /\ pcM' = AfterWait
    /\ UNCHANGED <<otherVars, last_command, running, recvVars, macroVars, histVars,
                   data, sendResult, elapsed, bus_sent, bus_open, nops>>

\* time.sleep(0.01)
WaitSleep ==
    /\ pcM = "wait_loop"
    /\ ~Expired(elapsed)
    /\ response_queue = <<>>
    /\ elapsed' = elapsed + SLEEP
    /\ UNCHANGED <<otherVars, globals, recvVars, macroVars, histVars,
                   pcM, data, sendResult, response, returned, bus_sent,
                   bus_open, nops>>

wait_for_response == WaitStart \/ WaitTimeout \/ WaitGet \/ WaitSleep

(***************************************************************************)
(* receive_messages (winch_move.py), the receiver thread.                  *)
(***************************************************************************)
\* while running:
RecvLoop ==
    /\ pcR = "loop"
    /\ pcR' = IF running THEN "recv" ELSE "exited"
    /\ UNCHANGED <<otherVars, globals, message, nrecv, mainVars, histVars, bus_sent, bus_open>>

\* bus.recv(0.1) returns a frame
RecvFrame(f) ==
    /\ pcR = "recv"
    /\ bus_open
    /\ nrecv < MaxRecv
    /\ nrecv' = nrecv + 1
    /\ message' = <<[data |-> f, epoch |-> nsends, late |-> timedOut]>>
    /\ pcR' = "check1"
    /\ arrivals' = arrivals \cup {f}
    /\ UNCHANGED <<otherVars, globals, mainVars, bus_sent, bus_open,
                   nsends, accepted, timedOut, expected>>

\* bus.recv(0.1) returns None after its timeout
RecvNone ==
    /\ pcR = "recv"
    /\ pcR' = "loop"
    /\ UNCHANGED <<otherVars, globals, message, nrecv, mainVars, histVars, bus_sent, bus_open>>

\* bus.recv(0.1) raises: the except clause is outside the loop
RecvRaise ==
    /\ pcR = "recv"
    /\ pcR' = "exited"
    /\ UNCHANGED <<otherVars, globals, message, nrecv, mainVars, histVars, bus_sent, bus_open>>

\* `last_command and ...`: the first read of last_command
RecvCheckSet ==
    /\ pcR = "check1"
    /\ IF last_command # None
       THEN pcR' = "check2" /\ UNCHANGED message
       ELSE pcR' = "loop" /\ message' = <<>>
    /\ UNCHANGED <<otherVars, globals, nrecv, mainVars, histVars, bus_sent, bus_open>>

\* the comparison looks at the second byte only
MatchesSecondByte(m) ==
    Len(m.data) >= 2 /\ Len(last_command) >= 2 /\ m.data[2] = last_command[2]

\* the comparison reads one byte more than the tag has
MatchesThree(m) ==
    /\ Prefix2(m.data) = last_command
    /\ Len(m.data) >= 3 => m.data[3] = 0

\* message.data[:2] == last_command: the second read of last_command
Matches(m) == Prefix2(m.data) = last_command

RecvCompare ==
    /\ pcR = "check2"
    /\ IF Matches(message[1])
       THEN pcR' = "put" /\ UNCHANGED message
       ELSE pcR' = "loop" /\ message' = <<>>
    /\ UNCHANGED <<otherVars, globals, nrecv, mainVars, histVars, bus_sent, bus_open>>

\* response_queue.put(message)
RecvPut ==
    /\ pcR = "put"
    /\ response_queue' =
           Append(response_queue,
                  [message[1] EXCEPT !.late = /\ message[1].late
                                              /\ timedOut
                                              /\ message[1].epoch = nsends])
    /\ accepted' = IF accepted < 2 THEN accepted + 1 ELSE accepted
    /\ pcR' = "loop"
    /\ message' = <<>>
    /\ UNCHANGED <<otherVars, last_command, running, nrecv, mainVars, bus_sent, bus_open,
                   nsends, timedOut, expected, arrivals>>

ReceiverSteps ==
    \/ RecvLoop
    \/ RecvNone
    \/ RecvRaise
    \/ RecvCheckSet
    \/ RecvCompare
    \/ RecvPut

(***************************************************************************)
(* A caller of the correlator: any sequence of send_message,               *)
(* parse_byte_string + send_message and wait_for_response.  The return     *)
(* values of the previous call are forgotten when the next one begins.     *)
(***************************************************************************)
CallSend(d) ==
    /\ pcM = "idle"
    /\ nops < MaxOps
    /\ nops' = nops + 1
    /\ data' = d
    /\ sendResult' = "-"
    /\ returned' = "-"
    /\ response' = <<>>
    /\ elapsed' = 0
    /\ pcM' = "send_check"
    /\ UNCHANGED <<otherVars, globals, recvVars, macroVars, histVars, bus_sent, bus_open>>

\* data = parse_byte_string(text); if data: send_message(bus, data)
CallParseAndSend(text) ==
    /\ pcM = "idle"
    /\ nops < MaxOps
    /\ nops' = nops + 1
    /\ data' = parse_byte_string(text)
    /\ sendResult' = "-"
    /\ returned' = IF data' # None THEN "-" ELSE "parse"
    /\ response' = <<>>
    /\ elapsed' = 0
    /\ pcM' = IF data' # None THEN "send_check" ELSE "idle"
    /\ UNCHANGED <<otherVars, globals, recvVars, macroVars, histVars, bus_sent, bus_open>>

CallWait ==
    /\ pcM = "idle"
    /\ nops < MaxOps
    /\ nops' = nops + 1
    /\ data' = None
    /\ sendResult' = "-"
    /\ returned' = "-"
    /\ response' = <<>>
    /\ pcM' = "wait_start"
    /\ UNCHANGED <<otherVars, globals, recvVars, macroVars, histVars, elapsed,
                   bus_sent, bus_open>>

Caller ==
    \/ \E d \in SendInputs : CallSend(d)
    \/ \E t \in TextInputs : CallParseAndSend(t)
    \/ CallWait

(***************************************************************************)
(* The correlator under an arbitrary caller.                               *)
(***************************************************************************)
InitCommon ==
    /\ last_command = None
    /\ response_queue = <<>>
    /\ running = TRUE
    /\ pcR = "loop"
    /\ message = <<>>
    /\ direction = "-"
    /\ data = None
    /\ sendResult = "-"
    /\ elapsed = 0
    /\ response = <<>>
    /\ returned = "-"
    /\ response3 = <<>>
    /\ outcome = "none"
    /\ bus_sent = <<>>
    /\ bus_open = TRUE
    /\ nops = 0
    /\ nrecv = 0
    /\ nsends = 0
    /\ accepted = 0
    /\ timedOut = FALSE
    /\ expected = <<>>
    /\ arrivals = {}

\* the other programs do not run
StressIdle ==
    /\ stop_event = FALSE
    /\ last_sent_time = 0
    /\ response_times = <<>>
    /\ now = 0
    /\ start_time = 0
    /\ sent_count = 0
    /\ pcSM = "off"
    /\ pcSR = "off"
    /\ sMessage = <<>>
    /\ recv_time = 0
    /\ sBusOpen = TRUE
    /\ sRecv = 0
    /\ report = <<>>

FilterIdle ==
    /\ filters = <<>>
    /\ feed = <<>>
    /\ fed = <<>>
    /\ library = "any"

TorqueIdle ==
    /\ pcT = "off"
    /\ pcTMain = "off"
    /\ tStopEvent = FALSE
    /\ tMessage = <<>>
    /\ data_log = <<>>
    /\ tSent = 0
    /\ tRecvd = 0
    /\ tAllowed = 0

OthersIdle == verdict = <<>> /\ StressIdle /\ FilterIdle /\ TorqueIdle

Init == InitCommon /\ OthersIdle /\ pcM = "idle" /\ step = 0

Next ==
    \/ Caller
    \/ send_message
    \/ wait_for_response
    \/ ReceiverSteps
    \/ \E f \in CallerFrames : RecvFrame(f)

Spec == Init /\ [][Next]_vars

(***************************************************************************)
(* execute_command_sequence_up / execute_command_sequence_down and main    *)
(* (winch_move.py).  The two macros differ in the text of step 1 only.     *)
(***************************************************************************)
\* main: the receiver thread runs, time.sleep(0.5), then the macro is entered
MacroStart(dir) ==
    /\ pcM = "main_start"
    /\ direction' = dir
    /\ pcM' = "step1"
    /\ UNCHANGED <<otherVars, globals, recvVars, histVars, step, response3, outcome,
                   data, sendResult, elapsed, response, returned, bus_sent,
                   bus_open, nops>>

\* data = parse_byte_string(<literal>); if data: send_message(bus, data); ...
\* With no data the step is skipped: `next` is where the code goes on.
MacroSend(at, n, text, next) ==
    /\ pcM = at
    /\ data' = parse_byte_string(text)
    /\ IF data' # None
       THEN step' = n /\ pcM' = "send_check"
       ELSE step' = step /\ pcM' = next
    /\ returned' = "-"
    /\ UNCHANGED <<otherVars, globals, recvVars, histVars, direction, response3, outcome,
                   sendResult, elapsed, response, bus_sent, bus_open, nops>>

MacroStep1 ==
    MacroSend("step1", 1,
              IF direction = "up" THEN TextStep1Up ELSE TextStep1Down, "step2")

MacroStep2 == MacroSend("step2", 2, TextStep2, "sleep2")

\* time.sleep(2)
MacroSleep2 ==
    /\ pcM = "sleep2"
    /\ pcM' = "step3"
    /\ UNCHANGED <<otherVars, globals, recvVars, histVars, macroVars, data, sendResult,
                   elapsed, response, returned, bus_sent, bus_open, nops>>

MacroStep3 == MacroSend("step3", 3, TextStep3, "mainloop")

\* the test of response3 passes whatever was returned
HasResponseAlways(r) == TRUE

\* if response3:
HasResponse(r) == r # <<>>

\* response3 = wait_for_response(); if response3: build and send step 4
MacroExtract ==
    /\ pcM = "extract"
    /\ response3' = response
    /\ IF HasResponse(response)
       THEN /\ data' = final_command(IF response = <<>> THEN <<>>
                                     ELSE response[1].data)
            /\ step' = 4
            /\ returned' = "-"
            /\ pcM' = "send_check"
            /\ UNCHANGED outcome
       ELSE /\ outcome' = "cannot_proceed"
            /\ pcM' = "mainloop"
            /\ UNCHANGED <<data, step, returned>>
    /\ UNCHANGED <<otherVars, globals, recvVars, histVars, direction,
                   sendResult, elapsed, response, bus_sent, bus_open, nops>>

\* response4 = wait_for_response(); the closing line
MacroReport ==
    /\ pcM = "report"
    /\ outcome' = IF response # <<>> THEN "completed" ELSE "no_final_response"
    /\ pcM' = "mainloop"
    /\ UNCHANGED <<otherVars, globals, recvVars, histVars, step, direction, response3,
                   data, sendResult, elapsed, response, returned, bus_sent,
                   bus_open, nops>>

\* KeyboardInterrupt, taken before the macro or in the idle loop after it (one
\* raised inside the macro cuts the run short and leads to the same clause)
KeyboardInterrupt ==
    /\ pcM \in {"main_start", "mainloop"}
    /\ pcM' = "finally"
    /\ UNCHANGED <<otherVars, globals, recvVars, histVars, macroVars, data, sendResult,
                   elapsed, response, returned, bus_sent, bus_open, nops>>

\* finally: running = False; time.sleep(0.2)
MainStop ==
    /\ pcM = "finally"
    /\ running' = FALSE
    /\ pcM' = "closing"
    /\ UNCHANGED <<otherVars, last_command, response_queue, recvVars, histVars, macroVars,
                   data, sendResult, elapsed, response, returned, bus_sent,
                   bus_open, nops>>

\* bus.shutdown()
MainShutdown ==
    /\ pcM = "closing"
    /\ bus_open' = FALSE
    /\ pcM' = "closed"
    /\ UNCHANGED <<otherVars, globals, recvVars, histVars, macroVars,
                   data, sendResult, elapsed, response, returned, bus_sent, nops>>

InitMacro == InitCommon /\ OthersIdle /\ pcM = "main_start" /\ step = 1

NextMacro ==
    \/ \E dir \in {"up", "down"} : MacroStart(dir)
    \/ MacroStep1
    \/ MacroStep2
    \/ MacroSleep2
    \/ MacroStep3
    \/ MacroExtract
    \/ MacroReport
    \/ send_message
    \/ wait_for_response
    \/ ReceiverSteps
    \/ \E f \in MacroFrames : RecvFrame(f)
    \/ KeyboardInterrupt
    \/ MainStop
    \/ MainShutdown

SpecMacro == InitMacro /\ [][NextMacro]_vars

\* The steps of the main thread inside the macro.  The thread is scheduled,
\* time.sleep returns, and bus.send returns or raises.
MacroThread ==
    \/ MacroStep1
    \/ MacroStep2
    \/ MacroSleep2
    \/ MacroStep3
    \/ MacroExtract
    \/ MacroReport
    \/ send_message
    \/ wait_for_response

\* One run of main's macro (execute_command_sequence_down) to its end, with
\* replies to steps 1 to 3 on the bus and no Ctrl-C: the runs whose progress
\* is examined.
RunFrames == {Reply94, Reply91, ReplyB4}

NextRun ==
    \/ MacroStart("down")
    \/ MacroThread
    \/ ReceiverSteps
    \/ \E f \in RunFrames : RecvFrame(f)

SpecRun == InitMacro /\ [][NextRun]_vars /\ WF_vars(MacroThread)

(***************************************************************************)
(* Claims about the correlator.                                            *)
(***************************************************************************)
\* wait_for_response has just returned message m to its caller
WaitReturned == returned = "wait"

\* a frame that answers the current request has been delivered by bus.recv
\* since send_message set the tag
MatchArrived == \E f \in arrivals : Prefix2(f) = last_command

\* C1: whenever wait_for_response returns a frame, its first two bytes are the
\* tag of the most recent send.
C1_ReturnedFrameCarriesLastTag ==
    (WaitReturned /\ response # <<>>)
        => Prefix2(response[1].data) = last_command

\* C2: after a send, a frame with the request's first two bytes that was queued
\* when the wait began is the frame the wait returns, and at that return
\* nothing is left to hand out (the queue is empty and the receiver holds no
\* frame), so that a second wait with no new arrival returns None.
C2_SendReceiveAwait ==
    [][(returned # "wait" /\ returned' = "wait" /\ expected # <<>>)
           => /\ response' = expected
              /\ (message = <<>> => response_queue' = <<>>)]_vars

\* C3: for each send at most one inbound frame is accepted: a second frame
\* with the same tag that arrives before the next send is not queued.
C3_AtMostOneAcceptedPerSend == accepted <= 1

\* C4: after a wait timed out, a frame with the timed-out request's tag that
\* arrives later is neither queued nor returned by a later wait.
C4_LateFrameNeverAccepted ==
    /\ \A i \in 1..Len(response_queue) : ~response_queue[i].late
    /\ (response # <<>> => ~response[1].late)

\* C5 as claimed: a wait begun with no request pending (no send yet made)
\* returns None at once, without sleeping.
C5_NoPendingReturnsAtOnce ==
    (nsends = 0 /\ (pcM = "wait_loop" \/ WaitReturned))
        => elapsed = 0

\* C5 as amended: a wait begun before any send returns None, and a wait returns
\* None only when the whole timeout has elapsed.
C5_NoPendingReturnsNoneAfterTimeout ==
    /\ (WaitReturned /\ nsends = 0) => response = <<>>
    /\ (WaitReturned /\ response = <<>>) => elapsed >= TIMEOUT

C5_Witness ==
    /\ WaitReturned
    /\ nsends = 0
    /\ response = <<>>
    /\ elapsed = TIMEOUT
    /\ nrecv > 0

\* C6: when no frame matching the request arrives (none is accepted after the
\* send), the wait returns None, no earlier than the timeout and less than one
\* polling sleep after it.
C6_TimeoutMonotonicity ==
    (WaitReturned /\ accepted = 0 /\ ~MatchArrived)
        => /\ response = <<>>
           /\ elapsed >= TIMEOUT
           /\ elapsed < TIMEOUT + SLEEP

\* C7: only payloads of exactly 8 bytes reach bus.send; a send with any other
\* length returns False and changes neither last_command nor the transport,
\* and a line that does not parse to 8 bytes leads to no send at all.
C7_OnlyEightBytesReachTransport ==
    /\ [](/\ \A i \in 1..Len(bus_sent) : Len(bus_sent[i].data) = 8
          /\ (pcM \in {"send_tag", "send_bus"} => Len(data) = 8)
          /\ (returned = "send" /\ Len(data) # 8 => sendResult = "False"))
    /\ [][(pcM = "send_check" /\ Len(data) # 8 /\ pcM' # pcM)
              => /\ returned' = "send"
                 /\ sendResult' = "False"
                 /\ last_command' = last_command
                 /\ nsends' = nsends
                 /\ bus_sent' = bus_sent]_vars
    /\ [][(returned' = "parse" /\ returned # "parse")
              => /\ pcM' = "idle"
                 /\ last_command' = last_command
                 /\ nsends' = nsends
                 /\ bus_sent' = bus_sent]_vars

C7_Witness ==
    /\ returned = "send"
    /\ Len(data) = 3
    /\ sendResult = "False"
    /\ last_command = <<148, 0>>
    /\ Len(bus_sent) = 1

(***************************************************************************)
(* Claims about the macros.                                                *)
(***************************************************************************)
\* the payload the spec's end-to-end scenario expects for step 4
Expected95 == <<149, 170, 187, 204, 221, 50, 20, 0>>

\* Steps 1 to 3 hand one frame each to bus.send, so step 4's is the fourth.
DependentSent == Len(bus_sent) >= 4

\* m carries the tag of step 3, as every frame accepted for step 3 does
ReceivedForStep3(m) == Prefix2(m.data) = <<180, 19>>

\* C8: the dependent step (opcode 0x95) is sent only after a response to step
\* 3 was received: never when step 3 timed out, never with bytes of another
\* frame.
C8_DependentOnlyAfterStep3Response ==
    (DependentSent \/ step = 4)
        => /\ response3 # <<>>
           /\ ReceivedForStep3(response3[1])

\* C9 as claimed: when the extraction step is answered by
\* 01 13 00 00 AA BB CC DD, that frame is the response of the step and the
\* dependent payload built from it is 95 AA BB CC DD 32 14 00.  Stated while
\* step 3 is still waiting and the receiver has finished with the frame, the
\* only one of the run.
C9_Scenario0113SendsDependent ==
    (/\ pcM = "wait_loop"
     /\ step = 3
     /\ nrecv = 1
     /\ arrivals = {Reply0113}
     /\ message = <<>>
     /\ pcR \in {"loop", "recv"})
        => /\ response_queue # <<>>
           /\ final_command(response_queue[1].data) = Expected95

\* C9 as amended: the frame 01 13 00 00 AA BB CC DD is never accepted, and
\* when the response taken for the extraction step is B4 13 00 00 AA BB CC DD
\* the dependent step is handed to bus.send with 95 AA BB CC DD 32 14 00.
C9_ScenarioB413SendsDependent ==
    /\ \A i \in 1..Len(response_queue) : response_queue[i].data # Reply0113
    /\ (response # <<>> => response[1].data # Reply0113)
    /\ (response3 # <<>> /\ response3[1].data = ReplyB4 /\ step = 4)
           => /\ data = Expected95
              /\ (pcM \notin {"send_check", "send_tag", "send_bus"}
                      => DependentSent /\ bus_sent[4].data = Expected95)

C9_Witness ==
    /\ pcM = "mainloop"
    /\ response3 # <<>>
    /\ response3[1].data = ReplyB4
    /\ DependentSent
    /\ bus_sent[4] = [data |-> Expected95, ok |-> TRUE]

\* d is [0x95] + the last four bytes of r (all of r when it has fewer) +
\* [0x32, 0x14, 0x00], filled with zero bytes at the tail up to 8 bytes
IsSplice(d, r) ==
    LET k == IF Len(r) < 4 THEN Len(r) ELSE 4
    IN  /\ Len(d) = 8
        /\ d[1] = 149
        /\ \A j \in 1..k : d[1 + j] = r[Len(r) - k + j]
        /\ d[k + 2] = 50
        /\ d[k + 3] = 20
        /\ d[k + 4] = 0
        /\ \A j \in (k + 5)..8 : d[j] = 0

\* C10: the dependent payload is the splice of the dependency response,
\* exactly 8 bytes; for a response ending AA BB CC DD it is
\* 95 AA BB CC DD 32 14 00.
C10_ByteSplice ==
    /\ step = 4 => response3 # <<>> /\ IsSplice(data, response3[1].data)
    /\ DependentSent => IsSplice(bus_sent[4].data, response3[1].data)
    /\ (step = 4 /\ last_four_bytes(response3[1].data) = <<170, 187, 204, 221>>)
           => data = Expected95

C10_Witness ==
    /\ DependentSent
    /\ response3[1].data = ShortB4
    /\ bus_sent[4].data = <<149, 180, 19, 7, 50, 20, 0, 0>>

(***************************************************************************)
(* Claims about the course of a macro run.                                 *)
(***************************************************************************)
\* the payloads of steps 2 and 3
PayloadStep2 == <<145, 0, 0, 0, 0, 0, 0, 0>>
PayloadStep3 == <<180, 19, 0, 0, 0, 0, 0, 0>>

\* steps 2 and 3 have been handed to bus.send, in this order
Steps2And3Sent ==
    /\ Len(bus_sent) >= 3
    /\ bus_sent[2].data = PayloadStep2
    /\ bus_sent[3].data = PayloadStep3

\* C11: a timeout on step 1 or step 2 is not fatal: once a macro has been
\* entered, step 2 and then step 3 are eventually sent, whatever responses
\* steps 1 and 2 get.
C11_Steps2And3EventuallySent == (pcM = "step1") ~> Steps2And3Sent

\* steps 1 and 2 both timed out (no frame was delivered at all) and step 3
\* has gone out
C11_Witness ==
    /\ Steps2And3Sent
    /\ nrecv = 0
    /\ step = 3
    /\ timedOut = FALSE

\* the macro has returned to main
MacroReturned == pcM = "mainloop"

\* C12 as claimed: a run ends in one of the two statuses completed and
\* aborted.  Stated for the runs whose only frame is the reply B4 13 ... to
\* step 3, taken as response3.
C12_TwoTerminalStatuses ==
    (/\ MacroReturned
     /\ nrecv = 1
     /\ response3 # <<>>
     /\ response3[1].data = ReplyB4
     /\ response3[1].epoch = 3)
        => outcome \in {"completed", "cannot_proceed"}

\* C12 as amended: every run ends, without a fault, with exactly one of three
\* closing lines: "completed" (step 4 got a response), "no response to final
\* command" (step 4 got none) or "cannot proceed" (exactly when the wait of
\* step 3 returned None); the line is printed once and never changed.
C12_ThreeClosingLines ==
    /\ [](MacroReturned
              => outcome \in {"completed", "no_final_response", "cannot_proceed"})
    /\ [](MacroReturned => (outcome = "cannot_proceed" <=> response3 = <<>>))
    /\ [](outcome = "cannot_proceed" => step = 3 /\ response3 = <<>>)
    /\ [](outcome = "completed" => step = 4 /\ response # <<>>)
    /\ [](outcome = "no_final_response" => step = 4 /\ response = <<>>)
    /\ [][outcome # "none" => outcome' = outcome]_vars
    /\ ((pcM = "step1") ~> MacroReturned)

\* a run in which bus.send raised and step 4 got no response
C12_Witness ==
    /\ MacroReturned
    /\ outcome = "no_final_response"
    /\ \E i \in 1..Len(bus_sent) : ~bus_sent[i].ok

(***************************************************************************)
(* The tag comparison taken alone: the test of receive_messages in         *)
(* winch_move.py and the one in winch_stresstest.py, applied to a frame    *)
(* (a record with the arbitration id and the data) under a recorded tag.   *)
(***************************************************************************)
\* every variable of winch_move.py
moveVars == <<globals, recvVars, mainVars, histVars, bus_sent, bus_open>>

\* winch_stresstest.py: MOTOR_ID, RESPONSE_ID, COMMAND
MOTOR_ID == 1
RESPONSE_ID == None
COMMAND == <<180, 18, 0, 0, 0, 0, 0, 0>>

\* winch_move.py: if last_command and message.data[:2] == last_command
MoveAccepts(m) == last_command # None /\ Matches(m)

\* winch_stresstest.py: RESPONSE_ID is None or message.arbitration_id ==
\* RESPONSE_ID, then list(message.data[:2]) == list(COMMAND[:2])
StressAccepts(m) ==
    /\ RESPONSE_ID = None \/ m.id = RESPONSE_ID
    /\ Prefix2(m.data) = Prefix2(COMMAND)

\* two-byte prefixes: they differ in the first byte, the second, or both
TagInputs == {<<180, 18>>, <<180, 19>>, <<1, 18>>, <<1, 19>>}

\* what follows the prefix in a frame
TailInputs == {<<>>, <<0>>, <<0, 0, 170, 187, 204, 221>>, <<7, 0, 170, 187, 204, 221>>}

\* frames: every prefix with every tail, and frames shorter than a tag
FrameDataInputs ==
    {t \o r : t \in TagInputs, r \in TailInputs} \cup {<<>>, <<180>>}

IdInputs == {MOTOR_ID, MOTOR_ID + 1}

\* payloads handed to send_message: every prefix, two different rests
PayloadInputs ==
    {t \o r : t \in TagInputs,
              r \in {<<0, 0, 0, 0, 0, 0>>, <<0, 160, 65, 208, 7, 0>>}}

InitTag ==
    /\ InitCommon
    /\ StressIdle
    /\ FilterIdle
    /\ TorqueIdle
    /\ pcM = "idle"
    /\ step = 0
    /\ \E p \in PayloadInputs, d \in FrameDataInputs, i \in IdInputs :
           verdict = [payload |-> p, frame |-> [id |-> i, data |-> d],
                      tag |-> None, move |-> "-", stress |-> "-"]

\* send_message: last_command = data[:2]
TagRecord ==
    /\ last_command = None
    /\ last_command' = Prefix2(verdict.payload)
    /\ UNCHANGED <<response_queue, running, recvVars, mainVars, histVars,
                   bus_sent, bus_open, verdict, stressVars, filterVars,
                   torqueVars>>

\* the two tests, applied to the frame
TagCompare ==
    /\ verdict.move = "-"
    /\ verdict' = [verdict EXCEPT
                       !.tag = last_command,
                       !.move = IF MoveAccepts(verdict.frame) THEN "yes" ELSE "no",
                       !.stress = IF StressAccepts(verdict.frame) THEN "yes" ELSE "no"]
    /\ UNCHANGED <<moveVars, stressVars, filterVars, torqueVars>>

NextTag == TagRecord \/ TagCompare

SpecTag == InitTag /\ [][NextTag]_vars

\* the first two bytes of d are the bytes a and b
StartsWith(d, a, b) == Len(d) >= 2 /\ d[1] = a /\ d[2] = b

\* C13: a frame is taken for a response exactly when its first two bytes are
\* the first two bytes of the request (the recorded payload in winch_move.py,
\* COMMAND in winch_stresstest.py), whatever its other bytes and its id.
C13_TagDerivation ==
    verdict.move # "-"
        => /\ verdict.move = "yes"
                  <=> /\ verdict.tag # <<>>
                      /\ StartsWith(verdict.frame.data,
                                    verdict.payload[1], verdict.payload[2])
           /\ verdict.stress = "yes"
                  <=> StartsWith(verdict.frame.data, COMMAND[1], COMMAND[2])

\* a frame with another id and other bytes after the prefix is accepted by both
C13_Witness ==
    /\ verdict.move = "yes"
    /\ verdict.stress = "yes"
    /\ verdict.frame.id # MOTOR_ID
    /\ Len(verdict.frame.data) = 8
    /\ verdict.frame.data[3] = 7
    /\ verdict.payload[3] = 0

(***************************************************************************)
(* Exact arithmetic on fractions <<numerator, denominator>>.               *)
(***************************************************************************)
Abs(n) == IF n < 0 THEN -n ELSE n

RECURSIVE GCD(_, _)
GCD(a, b) == IF b = 0 THEN a ELSE GCD(b, a % b)

\* the fraction n/d in lowest terms, d > 0
Frac(n, d) ==
    LET g == GCD(Abs(n), Abs(d))
        sgn == IF d < 0 THEN -1 ELSE 1
    IN  IF n = 0 THEN <<0, 1>> ELSE <<sgn * (n \div g), sgn * (d \div g)>>

QAdd(p, q) == Frac(p[1] * q[2] + q[1] * p[2], p[2] * q[2])
QMul(p, q) == Frac(p[1] * q[1], p[2] * q[2])
QOne == <<1, 1>>
QZero == <<0, 1>>

(***************************************************************************)
(* winch_stresstest.py: analyze_response_times.  Mean and percentiles are  *)
(* exact fractions; of the standard deviation the model keeps the square.  *)
(***************************************************************************)
RECURSIVE SumSeq(_)
SumSeq(ts) == IF ts = <<>> THEN 0 ELSE Head(ts) + SumSeq(Tail(ts))

RECURSIVE Insert(_, _)
\* x put into the ascending sequence ts
Insert(x, ts) ==
    IF ts = <<>> THEN <<x>>
    ELSE IF x <= Head(ts) THEN <<x>> \o ts
    ELSE <<Head(ts)>> \o Insert(x, Tail(ts))

RECURSIVE Sorted(_)
\* the values of ts in ascending order
Sorted(ts) == IF ts = <<>> THEN <<>> ELSE Insert(Head(ts), Sorted(Tail(ts)))

\* statistics.mean
Mean(ts) == Frac(SumSeq(ts), Len(ts))

RECURSIVE SumSqDev(_, _, _)
\* sum of (n*x - total)^2 over the values x of ts
SumSqDev(ts, n, total) ==
    IF ts = <<>> THEN 0
    ELSE (n * Head(ts) - total) * (n * Head(ts) - total)
         + SumSqDev(Tail(ts), n, total)

\* the square of statistics.stdev: the sample variance
Variance(ts) ==
    Frac(SumSqDev(ts, Len(ts), SumSeq(ts)), Len(ts) * Len(ts) * (Len(ts) - 1))

\* the order statistic just below the rank, without interpolation
PercentileLower(ts, q) ==
    Frac(Sorted(ts)[((Len(ts) - 1) * q) \div 100 + 1], 1)

\* np.percentile(ts, q): linear interpolation between the two order
\* statistics around the rank (n - 1) * q / 100
Percentile(ts, q) ==
    LET s == Sorted(ts)
        h == (Len(ts) - 1) * q
        lo == h \div 100 + 1
        r == h % 100
    IN  IF r = 0 THEN Frac(s[lo], 1)
        ELSE Frac(100 * s[lo] + r * (s[lo + 1] - s[lo]), 100)

Percentiles == {50, 90, 95, 99}

\* analyze_response_times(): what it prints for the samples ts
analyze_response_times(ts) ==
    IF ts = <<>>
    THEN [nodata |-> TRUE, count |-> 0, avg_time |-> QZero, min_time |-> 0,
          max_time |-> 0, std_dev_sq |-> QZero,
          percentiles |-> [q \in Percentiles |-> QZero]]
    ELSE [nodata |-> FALSE,
          count |-> Len(ts),
          avg_time |-> Mean(ts),
          min_time |-> Sorted(ts)[1],
          max_time |-> Sorted(ts)[Len(ts)],
          std_dev_sq |-> IF Len(ts) > 1 THEN Variance(ts) ELSE QZero,
          percentiles |-> [q \in Percentiles |-> Percentile(ts, q)]]

(***************************************************************************)
(* winch_stresstest.py: main (the periodic sender) and receive_messages.   *)
(* Time is counted in sending intervals (INTERVAL_MS); it passes in main's *)
(* time.sleep and, at any other moment, by Tick.                           *)
(***************************************************************************)
\* sending intervals in TEST_DURATION_SEC (1000 in the code)
TEST_DURATION == 2
\* the clock stops being advanced by Tick here
MaxNow == 3
\* frames the bus delivers in one stress test
MaxStressRecv == 2
\* time.sleep(INTERVAL_MS / 1000): one time unit
INTERVAL == 1

\* frames on the bus: an answer to COMMAND and a frame with another prefix
StressFrames ==
    {[id |-> MOTOR_ID, data |-> <<180, 18, 0, 0, 1, 2, 3, 4>>],
     [id |-> MOTOR_ID, data |-> <<180, 19, 0, 0, 1, 2, 3, 4>>]}

stressMain == <<start_time, sent_count, pcSM>>
\* what the stress test leaves alone
besideStress == <<moveVars, verdict, filterVars, torqueVars, report>>
stressRecv == <<pcSR, sMessage, recv_time, sRecv>>

InitStress ==
    /\ InitCommon
    /\ pcM = "idle"
    /\ step = 0
    /\ verdict = <<>>
    /\ FilterIdle
    /\ TorqueIdle
    /\ stop_event = FALSE
    /\ last_sent_time = 0
    /\ response_times = <<>>
    /\ now = 0
    /\ start_time = 0
    /\ sent_count = 0
    /\ pcSM = "start"
    /\ pcSR = "loop"
    /\ sMessage = <<>>
    /\ recv_time = 0
    /\ sBusOpen = TRUE
    /\ sRecv = 0
    /\ report = <<>>

\* time passes
Tick ==
    /\ now < MaxNow
    /\ now' = now + 1
    /\ UNCHANGED <<besideStress, stop_event, last_sent_time,
                   response_times, stressMain, stressRecv, sBusOpen>>

\* start_time = time.time(); sent_count = 0
StressStart ==
    /\ pcSM = "start"
    /\ start_time' = now
    /\ sent_count' = 0
    /\ pcSM' = "while"
    /\ UNCHANGED <<besideStress, stop_event, last_sent_time,
                   response_times, now, stressRecv, sBusOpen>>

\* while (time.time() - start_time) < TEST_DURATION_SEC:
StressWhile ==
    /\ pcSM = "while"
    /\ pcSM' = IF now - start_time < TEST_DURATION THEN "send_check" ELSE "drain"
    /\ UNCHANGED <<besideStress, stop_event, last_sent_time,
                   response_times, now, start_time, sent_count, stressRecv,
                   sBusOpen>>

\* send_message(bus, COMMAND): if len(data) != 8: return False
StressSendCheck ==
    /\ pcSM = "send_check"
    /\ pcSM' = IF LengthWrong(COMMAND) THEN "count" ELSE "send_stamp"
    /\ UNCHANGED <<besideStress, stop_event, last_sent_time,
                   response_times, now, start_time, sent_count, stressRecv,
                   sBusOpen>>

\* last_sent_time = time.time()
StressSendStamp ==
    /\ pcSM = "send_stamp"
    /\ last_sent_time' = now
    /\ pcSM' = "send_bus"
    /\ UNCHANGED <<besideStress, stop_event, response_times, now,
                   start_time, sent_count, stressRecv, sBusOpen>>

\* bus.send(message): returns, or raises and send_message returns False
StressBusSend ==
    /\ pcSM = "send_bus"
    /\ pcSM' = "count"
    /\ UNCHANGED <<besideStress, stop_event, last_sent_time,
                   response_times, now, start_time, sent_count, stressRecv,
                   sBusOpen>>

\* sent_count += 1
StressCount ==
    /\ pcSM = "count"
    /\ sent_count' = sent_count + 1
    /\ pcSM' = "sleep"
    /\ UNCHANGED <<besideStress, stop_event, last_sent_time,
                   response_times, now, start_time, stressRecv, sBusOpen>>

\* time.sleep(INTERVAL_MS / 1000)
StressSleep ==
    /\ pcSM = "sleep"
    /\ now' = now + INTERVAL
    /\ pcSM' = "while"
    /\ UNCHANGED <<besideStress, stop_event, last_sent_time,
                   response_times, start_time, sent_count, stressRecv, sBusOpen>>

\* time.sleep(0.2), then stop_event.set()
StressStop ==
    /\ pcSM = "drain"
    /\ stop_event' = TRUE
    /\ pcSM' = "join"
    /\ UNCHANGED <<besideStress, last_sent_time, response_times, now,
                   start_time, sent_count, stressRecv, sBusOpen>>

\* receiver_thread.join(timeout=1.0): the thread leaves its loop within one
\* bus.recv(0.1), well inside the timeout of the join
StressJoin ==
    /\ pcSM = "join"
    /\ pcSR \in {"exited", "crashed"}
    /\ pcSM' = "analyze"
    /\ UNCHANGED <<besideStress, stop_event, last_sent_time,
                   response_times, now, start_time, sent_count, stressRecv,
                   sBusOpen>>

\* the two summary lines and analyze_response_times()
StressAnalyze ==
    /\ pcSM = "analyze"
    /\ report' = <<analyze_response_times(response_times)>>
    /\ pcSM' = "finally"
    /\ UNCHANGED <<moveVars, verdict, filterVars, torqueVars, stop_event,
                   last_sent_time,
                   response_times, now, start_time, sent_count, stressRecv,
                   sBusOpen>>

\* except KeyboardInterrupt: Ctrl-C while main sleeps in the sending loop or
\* before the stop
StressInterrupt ==
    /\ pcSM \in {"sleep", "drain"}
    /\ pcSM' = "finally"
    /\ UNCHANGED <<besideStress, stop_event, last_sent_time,
                   response_times, now, start_time, sent_count, stressRecv,
                   sBusOpen>>

\* finally: stop_event.set()
StressFinally ==
    /\ pcSM = "finally"
    /\ stop_event' = TRUE
    /\ pcSM' = "closing"
    /\ UNCHANGED <<besideStress, last_sent_time, response_times, now,
                   start_time, sent_count, stressRecv, sBusOpen>>

\* bus.shutdown()
StressShutdown ==
    /\ pcSM = "closing"
    /\ sBusOpen' = FALSE
    /\ pcSM' = "closed"
    /\ UNCHANGED <<besideStress, stop_event, last_sent_time,
                   response_times, now, start_time, sent_count, stressRecv>>

StressMain ==
    \/ StressStart
    \/ StressWhile
    \/ StressSendCheck
    \/ StressSendStamp
    \/ StressBusSend
    \/ StressCount
    \/ StressSleep
    \/ StressStop
    \/ StressJoin
    \/ StressAnalyze
    \/ StressInterrupt
    \/ StressFinally
    \/ StressShutdown

\* while not stop_event.is_set():
StressRecvLoop ==
    /\ pcSR = "loop"
    /\ pcSR' = IF stop_event THEN "exited" ELSE "recv"
    /\ UNCHANGED <<besideStress, stop_event, last_sent_time,
                   response_times, now, stressMain, sMessage, recv_time,
                   sRecv, sBusOpen>>

\* message = bus.recv(0.1) returns a frame
StressRecvFrame(f) ==
    /\ pcSR = "recv"
    /\ sBusOpen
    /\ sRecv < MaxStressRecv
    /\ sRecv' = sRecv + 1
    /\ sMessage' = <<f>>
    /\ pcSR' = "filter"
    /\ UNCHANGED <<besideStress, stop_event, last_sent_time,
                   response_times, now, stressMain, recv_time, sBusOpen>>

\* message = bus.recv(0.1) returns None after its timeout
StressRecvNone ==
    /\ pcSR = "recv"
    /\ sBusOpen
    /\ pcSR' = "loop"
    /\ UNCHANGED <<besideStress, stop_event, last_sent_time,
                   response_times, now, stressMain, sMessage, recv_time,
                   sRecv, sBusOpen>>

\* bus.recv(0.1) raises (a transport failure, or the bus has been shut
\* down): nothing catches it and the thread ends
StressRecvRaise ==
    /\ pcSR = "recv"
    /\ pcSR' = "crashed"
    /\ UNCHANGED <<besideStress, stop_event, last_sent_time,
                   response_times, now, stressMain, sMessage, recv_time,
                   sRecv, sBusOpen>>

\* if RESPONSE_ID is None or message.arbitration_id == RESPONSE_ID:
\*     recv_time = time.time()
StressRecvStamp ==
    /\ pcSR = "filter"
    /\ IF RESPONSE_ID = None \/ sMessage[1].id = RESPONSE_ID
       THEN recv_time' = now /\ pcSR' = "compare" /\ UNCHANGED sMessage
       ELSE pcSR' = "loop" /\ sMessage' = <<>> /\ UNCHANGED recv_time
    /\ UNCHANGED <<besideStress, stop_event, last_sent_time,
                   response_times, now, stressMain, sRecv, sBusOpen>>

\* if list(message.data[:2]) == list(COMMAND[:2]):
StressRecvCompare ==
    /\ pcSR = "compare"
    /\ IF Prefix2(sMessage[1].data) = Prefix2(COMMAND)
       THEN pcSR' = "append" /\ UNCHANGED sMessage
       ELSE pcSR' = "loop" /\ sMessage' = <<>>
    /\ UNCHANGED <<besideStress, stop_event, last_sent_time,
                   response_times, now, stressMain, recv_time, sRecv, sBusOpen>>

\* response_time_ms = (recv_time - last_sent_time) * 1000
\* response_times.append(response_time_ms)
StressRecvAppend ==
    /\ pcSR = "append"
    /\ response_times' = Append(response_times, recv_time - last_sent_time)
    /\ sMessage' = <<>>
    /\ pcSR' = "loop"
    /\ UNCHANGED <<besideStress, stop_event, last_sent_time, now,
                   stressMain, recv_time, sRecv, sBusOpen>>

StressReceiver ==
    \/ StressRecvLoop
    \/ \E f \in StressFrames : StressRecvFrame(f)
    \/ StressRecvNone
    \/ StressRecvRaise
    \/ StressRecvStamp
    \/ StressRecvCompare
    \/ StressRecvAppend

NextStress == Tick \/ StressMain \/ StressReceiver

SpecStress == InitStress /\ [][NextStress]_vars

\* the stress test's receiver has left its loop on seeing the flag
StressReceiverExited == pcSR = "exited"

\* C14: once the flag is set the receiver leaves its loop at its next test of
\* the flag, and it has done so before the transport is closed.
C14_ReceiverExitsBeforeClose ==
    ~sBusOpen => StressReceiverExited

(***************************************************************************)
(* Claims about transport failures in winch_move.py.                       *)
(***************************************************************************)
\* C15: a failure of one bus.recv call does not end the receiver: as long as
\* main has not asked it to stop, it is still in its loop, ready to deliver
\* the frames that arrive for later sends.
C15_ReceiverSurvivesRecvFailure ==
    running => pcR # "exited"

\* the queued message m arrived while the send numbered m.epoch was the last
\* one, and carries the tag of that send
QueuedFor(m) ==
    /\ m.epoch >= 1
    /\ m.epoch <= Len(bus_sent)
    /\ Prefix2(m.data) = Prefix2(bus_sent[m.epoch].data)

\* C16: a send whose bus.send raised leaves no request behind: no frame is
\* queued on behalf of it.
C16_FailedSendAcceptsNothing ==
    \A i \in 1..Len(response_queue) :
        QueuedFor(response_queue[i]) => bus_sent[response_queue[i].epoch].ok

(***************************************************************************)
(* winch_torque_v2.py: RealTimeFilter.  Values are exact fractions         *)
(* <<numerator, denominator>>, kept in lowest terms.                       *)
(***************************************************************************)
\* updates given to one instance in a run
MaxUpdates == 6

\* what the filters leave alone
besideFilter == <<moveVars, verdict, stressVars, torqueVars>>

\* scipy.signal.savgol_filter(buffer, window_length, polyorder)[-1] with the
\* buffer as long as the window: the least-squares polynomial of degree
\* polyorder through the window, taken at its last point.  It is a weighted
\* sum of the samples, weights w[i]/d, oldest sample first.
SavgolWeights(W, P) ==
    CASE W = 3 /\ P = 1 -> [w |-> <<-1, 2, 5>>, d |-> 6]
      [] W = 4 /\ P = 1 -> [w |-> <<-2, 1, 4, 7>>, d |-> 10]
      [] W = 5 /\ P = 3 -> [w |-> <<-1, 4, -6, 4, 69>>, d |-> 70]
      [] W = 11 /\ P = 3 ->
            [w |-> <<-12, 8, 13, 8, -2, -12, -17, -12, 8, 48, 113>>, d |-> 143]

RECURSIVE WeightedSum(_, _)
WeightedSum(w, buf) ==
    IF w = <<>> THEN QZero
    ELSE QAdd(QMul(<<Head(w), 1>>, Head(buf)), WeightedSum(Tail(w), Tail(buf)))

savgol_last(buf, W, P) ==
    QMul(WeightedSum(SavgolWeights(W, P).w, buf), <<1, SavgolWeights(W, P).d>>)

\* savgol_filter raises ValueError: polyorder is not less than window_length,
\* or window_length is even and the installed scipy wants it odd
SavgolRaises(W, P) ==
    \/ P >= W
    \/ W % 2 = 0 /\ library = "odd_only"

\* a list's append: nothing is evicted
ListAppend(buf, x, n) == Append(buf, x)

\* deque(maxlen=n).append(x)
DequeAppend(buf, x, n) ==
    IF n = 0 THEN <<>>
    ELSE IF Len(buf) >= n THEN Append(Tail(buf), x)
    ELSE Append(buf, x)

\* the buffer counts as not yet full when it holds exactly the window
ColdStartOneMore(buf, W) == Len(buf) <= W

\* len(self.buffer) < self.window_size
ColdStart(buf, W) == Len(buf) < W

\* no instance made yet under this number
NoFilter ==
    [filter_type |-> "-", window_size |-> 0, poly_order |-> 0, alpha |-> QZero,
     buffer |-> <<>>, last_value |-> QZero]

\* the recursive state starts at 1
NewFilterFromOne(type, W, P, a) ==
    [filter_type |-> type, window_size |-> W, poly_order |-> P, alpha |-> a,
     buffer |-> <<>>, last_value |-> QOne]

\* RealTimeFilter.__init__(filter_type, window_size, poly_order, alpha)
NewFilter(type, W, P, a) ==
    [filter_type |-> type, window_size |-> W, poly_order |-> P, alpha |-> a,
     buffer |-> <<>>, last_value |-> QZero]

\* RealTimeFilter.update(new_value): the instance afterwards, whether the call
\* raised, and the value returned
update(self, x) ==
    IF self.filter_type = "savgol"
    THEN LET buf == DequeAppend(self.buffer, x, self.window_size)
             after == [self EXCEPT !.buffer = buf]
         IN  IF ColdStart(buf, self.window_size)
             THEN [self |-> after, raised |-> FALSE, value |-> x]
             ELSE IF SavgolRaises(self.window_size, self.poly_order)
             THEN [self |-> after, raised |-> TRUE, value |-> QZero]
             ELSE [self |-> after, raised |-> FALSE,
                   value |-> savgol_last(buf, self.window_size, self.poly_order)]
    ELSE IF self.filter_type = "ema"
    THEN LET v == QAdd(QMul(self.alpha, x),
                       QMul(QAdd(QOne, QMul(<<-1, 1>>, self.alpha)), self.last_value))
         IN  [self |-> [self EXCEPT !.last_value = v], raised |-> FALSE, value |-> v]
    ELSE IF self.filter_type = "iir"
    THEN LET v == QAdd(QMul(<<4, 5>>, self.last_value), QMul(<<1, 5>>, x))
         IN  [self |-> [self EXCEPT !.last_value = v], raised |-> FALSE, value |-> v]
    ELSE [self |-> self, raised |-> FALSE, value |-> x]

\* the instances of a run
FilterIds == {1, 2}

\* constructor arguments: the windowed regression with W = 3 and W = 5, with
\* an even window, with a polynomial order that is not below the window, and
\* the other filter types with the default alpha = 0.2
ParamInputs ==
    {[type |-> "savgol", W |-> 3, P |-> 1, a |-> <<1, 5>>],
     [type |-> "savgol", W |-> 5, P |-> 3, a |-> <<1, 5>>],
     [type |-> "savgol", W |-> 4, P |-> 1, a |-> <<1, 5>>],
     [type |-> "savgol", W |-> 3, P |-> 3, a |-> <<1, 5>>],
     [type |-> "ema", W |-> 11, P |-> 3, a |-> <<1, 5>>],
     [type |-> "iir", W |-> 11, P |-> 3, a |-> <<1, 5>>],
     [type |-> "none", W |-> 11, P |-> 3, a |-> <<1, 5>>]}

\* raw values
FeedValues == {10, 30}
FeedInputs == [1..MaxUpdates -> FeedValues]

InitFilter ==
    /\ InitCommon
    /\ pcM = "idle"
    /\ step = 0
    /\ verdict = <<>>
    /\ StressIdle
    /\ TorqueIdle
    /\ filters = [k \in FilterIds |-> NoFilter]
    /\ feed \in FeedInputs
    /\ fed = [k \in FilterIds |-> [n |-> 0, outs |-> <<>>]]
    /\ library \in {"any", "odd_only"}

\* every instance writes the one buffer
StoreSharedBuffer(fs, k, f) ==
    [j \in DOMAIN fs |->
        IF j = k THEN f
        ELSE IF fs[j].filter_type = "-" THEN fs[j]
        ELSE [fs[j] EXCEPT !.buffer = f.buffer]]

\* self.buffer, self.last_value, ... are attributes of the one instance
StoreInstance(fs, k, f) == [fs EXCEPT ![k] = f]

\* RealTimeFilter(filter_type=..., window_size=..., poly_order=..., alpha=...)
FilterNew(k, p) ==
    /\ filters[k].filter_type = "-"
    /\ filters' = StoreInstance(filters, k, NewFilter(p.type, p.W, p.P, p.a))
    /\ UNCHANGED <<besideFilter, feed, fed, library>>

\* <instance k>.update(<the next raw value>)
FilterUpdate(k) ==
    /\ filters[k].filter_type # "-"
    /\ fed[k].n < MaxUpdates
    /\ LET r == update(filters[k], <<feed[fed[k].n + 1], 1>>)
       IN  /\ filters' = StoreInstance(filters, k, r.self)
           /\ fed' = [fed EXCEPT ![k] =
                         [n |-> fed[k].n + 1,
                          outs |-> Append(fed[k].outs,
                                          [raised |-> r.raised, value |-> r.value])]]
    /\ UNCHANGED <<besideFilter, feed, library>>

NextFilter ==
    \/ \E k \in FilterIds, p \in ParamInputs : FilterNew(k, p)
    \/ \E k \in FilterIds : FilterUpdate(k)

SpecFilter == InitFilter /\ [][NextFilter]_vars

\* instance k is a windowed regression with W odd and P < W
ValidSavgol(k) ==
    /\ filters[k].filter_type = "savgol"
    /\ filters[k].window_size % 2 = 1
    /\ filters[k].poly_order < filters[k].window_size

\* the raw values i-W+1 .. i of the feed, as fractions
LastWindow(i, W) == [j \in 1..W |-> <<feed[i - W + j], 1>>]

\* C17: a windowed regression with window W returns its raw input in each of
\* its first W-1 updates, and from the W-th update on the fitted value at the
\* last point of the last W raw values.
C17_ColdStart ==
    \A k \in FilterIds :
        ValidSavgol(k) =>
            \A i \in 1..fed[k].n :
                LET W == filters[k].window_size
                    out == fed[k].outs[i]
                IN  /\ ~out.raised
                    /\ i < W => out.value = <<feed[i], 1>>
                    /\ i >= W => out.value =
                                    savgol_last(LastWindow(i, W), W, filters[k].poly_order)

\* W = 5: the fourth update returned its input 30, the fifth a fitted value
C17_Witness ==
    \E k \in FilterIds :
        /\ ValidSavgol(k)
        /\ filters[k].window_size = 5
        /\ fed[k].n >= 5
        /\ feed[4] = 30
        /\ fed[k].outs[4].value = <<30, 1>>
        /\ fed[k].outs[5].value # <<feed[5], 1>>

\* C18: no windowed regression with W even or P >= W is ever constructed,
\* and no update raises.
C18_InvalidRejectedAtConstruction ==
    \A k \in FilterIds :
        /\ filters[k].filter_type = "savgol" => ValidSavgol(k)
        /\ \A i \in 1..fed[k].n : ~fed[k].outs[i].raised

\* the constructor arguments of instance k
ParamsOf(k) ==
    <<filters[k].filter_type, filters[k].window_size, filters[k].poly_order,
      filters[k].alpha>>

Min(a, b) == IF a < b THEN a ELSE b

\* C19: two instances made with the same arguments and given the same raw
\* values return the same values, however their updates are interleaved, and
\* a step that changes one instance leaves the other as it was.
C19_DeterminismAndIsolation ==
    /\ [](ParamsOf(1) = ParamsOf(2)
              => \A i \in 1..Min(fed[1].n, fed[2].n) : fed[1].outs[i] = fed[2].outs[i])
    /\ [][\A k \in FilterIds :
              (filters'[k] # filters[k] \/ fed'[k] # fed[k])
                  => \A j \in FilterIds \ {k} :
                         filters'[j] = filters[j] /\ fed'[j] = fed[j]]_vars

\* two windowed regressions with W = 5, one three updates ahead of the other,
\* agree on the fitted fifth value
C19_Witness ==
    /\ ParamsOf(1) = <<"savgol", 5, 3, <<1, 5>>>>
    /\ ParamsOf(2) = ParamsOf(1)
    /\ fed[1].n = 5
    /\ fed[2].n = 6
    /\ fed[1].outs[5].value # <<feed[5], 1>>
    /\ fed[1].outs[5] = fed[2].outs[5]


(***************************************************************************)
(* analyze_response_times taken alone: the receiver has ended, the list    *)
(* holds any sample sequence, and main reaches the call.                   *)
(***************************************************************************)
\* longest sample sequence analysed
MaxSamples == 5
SampleValues == {10, 20, 30, 40, 50}
SampleInputs == UNION {[1..n -> SampleValues] : n \in 0..MaxSamples}

InitStats ==
    /\ InitCommon
    /\ pcM = "idle"
    /\ step = 0
    /\ verdict = <<>>
    /\ FilterIdle
    /\ TorqueIdle
    /\ stop_event = TRUE
    /\ last_sent_time = 0
    /\ response_times \in SampleInputs
    /\ now = 0
    /\ start_time = 0
    /\ sent_count = 0
    /\ pcSM = "analyze"
    /\ pcSR = "exited"
    /\ sMessage = <<>>
    /\ recv_time = 0
    /\ sBusOpen = TRUE
    /\ sRecv = 0
    /\ report = <<>>

NextStats == StressAnalyze

SpecStats == InitStats /\ [][NextStats]_vars

\* the k-th smallest value of ts, by counting
OrderStat(ts, k) ==
    CHOOSE x \in {ts[i] : i \in 1..Len(ts)} :
        /\ Cardinality({i \in 1..Len(ts) : ts[i] < x}) < k
        /\ k <= Cardinality({i \in 1..Len(ts) : ts[i] <= x})

\* the fraction v is the value at rank (n - 1) * q / 100 on the line through
\* the order statistics on either side of that rank
Interpolates(v, ts, q) ==
    LET h == (Len(ts) - 1) * q
        lo == h \div 100 + 1
        hi == IF lo < Len(ts) THEN lo + 1 ELSE lo
        r == h % 100
    IN  100 * v[1]
          = v[2] * ((100 - r) * OrderStat(ts, lo) + r * OrderStat(ts, hi))

\* C20: once analyze_response_times has run, for a non-empty sample
\* sequence it reported the count, the smallest and the largest sample, the
\* mean, and each of the 50/90/95/99 percentiles as the linear interpolation
\* between order statistics (for [10, 20, 30, 40, 50]: mean 30, min 10,
\* max 50, 50th percentile 30); for fewer than 2 samples the standard
\* deviation is 0; for zero samples it reported no data, and returned.
C20_StatsReport ==
    report # <<>> =>
        LET ts == response_times
            r == report[1]
            n == Len(ts)
        IN  /\ pcSM = "finally"
            /\ r.nodata <=> n = 0
            /\ n < 2 => r.std_dev_sq = <<0, 1>>
            /\ n > 0 =>
                /\ r.count = n
                /\ \E i \in 1..n : ts[i] = r.min_time
                /\ \A i \in 1..n : r.min_time <= ts[i]
                /\ \E i \in 1..n : ts[i] = r.max_time
                /\ \A i \in 1..n : ts[i] <= r.max_time
                /\ r.avg_time[2] > 0
                /\ r.avg_time[1] * n = r.avg_time[2] * SumSeq(ts)
                /\ \A q \in {50, 90, 95, 99} : Interpolates(r.percentiles[q], ts, q)
            /\ ts = <<10, 20, 30, 40, 50>> =>
                /\ r.avg_time = <<30, 1>>
                /\ r.min_time = 10
                /\ r.max_time = 50
                /\ r.percentiles[50] = <<30, 1>>

\* the five samples of the example were analysed, in another order, and a
\* percentile fell between two of them
C20_Witness ==
    /\ report # <<>>
    /\ response_times = <<30, 10, 50, 20, 40>>
    /\ report[1].count = 5
    /\ report[1].avg_time = <<30, 1>>
    /\ report[1].percentiles[50] = <<30, 1>>
    /\ report[1].percentiles[90] = <<46, 1>>


(***************************************************************************)
(* format_can_data and parse_byte_string taken alone (winch_control.py and *)
(* winch_move.py hold the same two functions).                             *)
(***************************************************************************)
\* longest line given to parse_byte_string, in tokens
MaxTokens == 9

ByteSamples == {0, 10, 255}
\* 8-byte payloads: every mix of three byte values, and every byte value
PayloadSamples ==
    [1..8 -> ByteSamples] \cup {[i \in 1..8 |-> (b + 37 * i) % 256] : b \in 0..255}

\* tokens: 00, FF, ff, 7, 100, 0FF, a non-hex character alone and after a
\* digit, -1, -0, a sign alone and a sign after a digit
TokenSamples ==
    {<<0, 0>>, <<15, 15>>, <<31, 31>>, <<7>>, <<1, 0, 0>>, <<0, 15, 15>>,
     <<NonHex>>, <<1, NonHex>>, <<Minus, 1>>, <<Minus, 0>>, <<Minus>>,
     <<1, Minus>>}

\* lines: the macro's literal with one token replaced, and lines of 0 to
\* MaxTokens good tokens
LineSamples ==
    {[TextStep3 EXCEPT ![i] = t] : i \in 1..8, t \in TokenSamples}
        \cup {[j \in 1..n |-> <<0, 0>>] : n \in 0..MaxTokens}

InitText ==
    /\ InitCommon
    /\ StressIdle
    /\ FilterIdle
    /\ TorqueIdle
    /\ pcM = "idle"
    /\ step = 0
    /\ verdict = [op |-> "none", bytes |-> <<>>, text |-> <<>>, parsed |-> None]

\* a payload is formatted and the line parsed back
TextFormat(d) ==
    /\ verdict.op = "none"
    /\ verdict' = [op |-> "format", bytes |-> d, text |-> format_can_data(d),
                   parsed |-> parse_byte_string(format_can_data(d))]
    /\ UNCHANGED <<moveVars, stressVars, filterVars, torqueVars>>

\* a line is parsed
TextParse(t) ==
    /\ verdict.op = "none"
    /\ verdict' = [op |-> "parse", bytes |-> <<>>, text |-> t,
                   parsed |-> parse_byte_string(t)]
    /\ UNCHANGED <<moveVars, stressVars, filterVars, torqueVars>>

NextText ==
    \/ \E d \in PayloadSamples : TextFormat(d)
    \/ \E t \in LineSamples : TextParse(t)

SpecText == InitText /\ [][NextText]_vars

\* the character c is one of 0..9, A..F
IsUpperHexDigit(c) == c \in 0..15

\* the token is a hex number, signed or not, whose value is a byte
ParsesToByte(part) ==
    /\ ~IsBadToken(part)
    /\ HexValue(part) \in 0..255

\* C21: the line format_can_data gives for an 8-byte payload d is 8 tokens
\* of two upper-case hex digits each and parse_byte_string turns it back
\* into d; parse_byte_string returns None for every line that is not
\* exactly 8 tokens each parsing to a byte value 0..255.
C21_TextRoundTrip ==
    /\ verdict.op = "format" =>
        /\ Len(verdict.text) = 8
        /\ \A i \in 1..8 :
            /\ Len(verdict.text[i]) = 2
            /\ \A j \in 1..2 : IsUpperHexDigit(verdict.text[i][j])
            /\ 16 * verdict.text[i][1] + verdict.text[i][2] = verdict.bytes[i]
        /\ verdict.parsed = verdict.bytes
    /\ verdict.op = "parse" =>
        (~(Len(verdict.text) = 8 /\ \A i \in 1..8 : ParsesToByte(verdict.text[i]))
            => verdict.parsed = None)

\* a payload with bytes below 16 and above 127 was formatted and parsed back
C21_Witness ==
    /\ verdict.op = "format"
    /\ verdict.bytes = <<37, 74, 111, 148, 185, 222, 3, 40>>
    /\ verdict.text[6] = <<13, 14>>
    /\ verdict.text[7] = <<0, 3>>
    /\ verdict.parsed = verdict.bytes


(***************************************************************************)
(* Claims about the samples of winch_stresstest.py.                        *)
(***************************************************************************)
\* main has stamped last_sent_time at least once
StressSendBegan == sent_count > 0 \/ pcSM \in {"send_bus", "count"}

\* C22: every recorded sample is the arrival time of the matched frame minus
\* the time of the send it answers, hence not negative, under every
\* interleaving of the sender and the receiver; and no sample is recorded
\* while no send has been made.
C22_SamplesNonNegativeAfterSend ==
    /\ \A i \in 1..Len(response_times) : response_times[i] >= 0
    /\ response_times # <<>> => StressSendBegan


(***************************************************************************)
(* Claims about what the receiver of winch_move.py queues.                 *)
(***************************************************************************)
\* the frame in the receiver's hands passes the comparison in this step
ComparisonPasses == pcR = "check2" /\ pcR' = "put"

\* C23: the receiver queues a frame only if, at the moment it compares it, a
\* send has been made and the frame's first two bytes are the tag of the
\* most recent send; a frame that arrived before any send is never queued.
C23_QueuedOnlyForATagInForce ==
    /\ [][ComparisonPasses =>
            /\ nsends > 0
            /\ last_command # None
            /\ Prefix2(message[1].data) = last_command]_vars
    /\ [](\A i \in 1..Len(response_queue) : response_queue[i].epoch > 0)


(***************************************************************************)
(* Claims about the order of a macro's sends.                              *)
(***************************************************************************)
\* the macro step a payload belongs to, by its command byte
StepOf(d) ==
    CASE d[1] = 148 -> 1
      [] d[1] = 145 -> 2
      [] d[1] = 180 -> 3
      [] d[1] = 149 -> 4
      [] OTHER -> 0

\* the main thread is inside send_message
InSend == pcM \in {"send_check", "send_tag", "send_bus"}

\* C24: a macro run is one pass with one request in flight at a time: the
\* payloads handed to the transport are those of steps 1, 2, 3, 4 in this
\* order, each at most once, and the macro moves on to step k+1 only when
\* the wait_for_response of step k has returned, with a response or None.
C24_OnePassInOrder ==
    /\ [](\A i \in 1..Len(bus_sent) : StepOf(bus_sent[i].data) = i)
    /\ [](Len(bus_sent) <= 4)
    /\ [](InSend => Len(bus_sent) = step - 1 /\ StepOf(data) = step)
    /\ [][step' # step =>
            /\ step' = step + 1
            /\ returned = "wait"
            /\ Len(bus_sent) = step]_vars

\* the four steps were sent, the first one without a response before its
\* wait timed out
C24_Witness ==
    /\ pcM = "mainloop"
    /\ outcome = "completed"
    /\ Len(bus_sent) = 4
    /\ bus_sent[1].data = <<148, 0, 0, 160, 193, 208, 7, 0>>
    /\ bus_sent[4].data[1] = 149
    /\ nrecv = 2


(***************************************************************************)
(* Claims about the order of the tag and the transport send.               *)
(***************************************************************************)
\* the payload of the send made last: the one bus.send is working on, or
\* the last one it was given
LatestSendData ==
    IF pcM = "send_bus" THEN data ELSE bus_sent[Len(bus_sent)].data

\* C25: send_message records the tag of the new request, over the previous
\* one, before it hands the frame to the transport; so a frame that arrives
\* once a send has begun is compared, whenever the receiver gets to it, with
\* the first two bytes of the request sent last, never with an earlier
\* request's tag and never with no tag.
C25_TagRecordedBeforeSend ==
    /\ pcM = "send_bus" => last_command = <<data[1], data[2]>>
    /\ (pcR \in {"check1", "check2"} /\ message[1].epoch >= 1) =>
        /\ message[1].epoch <= nsends
        /\ last_command # None
        /\ last_command = <<LatestSendData[1], LatestSendData[2]>>

\* a frame arrived while bus.send was at work on the second request, whose
\* tag differs from the first one's, and is about to be compared
C25_Witness ==
    /\ pcM = "send_bus"
    /\ pcR = "check2"
    /\ nsends = 2
    /\ message[1].epoch = 2
    /\ Len(bus_sent) = 1
    /\ last_command = <<data[1], data[2]>>
    /\ last_command # <<bus_sent[1].data[1], bus_sent[1].data[2]>>


(***************************************************************************)
(* Claims about the buffer and the recursive state of RealTimeFilter.      *)
(***************************************************************************)
\* C26: the buffer of a windowed regression with window W never holds more
\* than W samples; after n updates it holds the last min(n, W) raw values,
\* oldest first, so an append to a full buffer evicts the oldest sample.
C26_BufferIsLastW ==
    \A k \in FilterIds :
        filters[k].filter_type = "savgol" =>
            LET W == filters[k].window_size
                n == fed[k].n
                m == Min(n, W)
            IN  /\ Len(filters[k].buffer) <= W
                /\ filters[k].buffer = [j \in 1..m |-> <<feed[n - m + j], 1>>]

\* W = 3, five updates: the buffer starts with the third raw value, which
\* differs from the first one
C26_Witness ==
    \E k \in FilterIds :
        /\ filters[k].filter_type = "savgol"
        /\ filters[k].window_size = 3
        /\ fed[k].n = 5
        /\ feed[1] # feed[3]
        /\ filters[k].buffer = <<<<feed[3], 1>>, <<feed[4], 1>>, <<feed[5], 1>>>>


\* the exponential and the recursive smoothing taken alone: the default
\* alpha = 0.2, alpha = 0.5, alpha = 1, and the fixed coefficients
SmoothInputs ==
    {[type |-> "ema", W |-> 11, P |-> 3, a |-> <<1, 5>>],
     [type |-> "ema", W |-> 11, P |-> 3, a |-> <<1, 2>>],
     [type |-> "ema", W |-> 11, P |-> 3, a |-> <<1, 1>>],
     [type |-> "iir", W |-> 11, P |-> 3, a |-> <<1, 5>>]}

NextSmooth ==
    \/ \E k \in FilterIds, p \in SmoothInputs : FilterNew(k, p)
    \/ \E k \in FilterIds : FilterUpdate(k)

SpecSmooth == InitFilter /\ [][NextSmooth]_vars

\* the weight instance k gives a new value
WeightOfNew(k) ==
    IF filters[k].filter_type = "iir" THEN <<1, 5>> ELSE filters[k].alpha

\* a * x + (1 - a) * previous
Blend(a, x, previous) ==
    QAdd(QMul(a, x), QMul(QAdd(QOne, QMul(<<-1, 1>>, a)), previous))

\* C27: the exponential and the single-pole recursive smoothing start from
\* the state 0, not from the first sample: the first output is alpha * x1
\* (0.2 * x1 for the recursive one) and each later output is
\* alpha * x + (1 - alpha) * previous (0.8 * previous + 0.2 * x); the
\* recursive smoothing returns what the exponential one returns with
\* alpha = 0.2, and with alpha = 1 the exponential output is the raw input.
C27_SmoothingFromZero ==
    \A k \in FilterIds :
        filters[k].filter_type \in {"ema", "iir"} =>
            /\ \A i \in 1..fed[k].n :
                /\ ~fed[k].outs[i].raised
                /\ fed[k].outs[i].value =
                       Blend(WeightOfNew(k), <<feed[i], 1>>,
                             IF i = 1 THEN QZero ELSE fed[k].outs[i - 1].value)
                /\ filters[k].filter_type = "ema" /\ filters[k].alpha = QOne
                       => fed[k].outs[i].value = <<feed[i], 1>>
            /\ fed[k].n >= 1 => fed[k].outs[1].value = QMul(WeightOfNew(k), <<feed[1], 1>>)
            /\ \A j \in FilterIds :
                (/\ filters[k].filter_type = "iir"
                 /\ filters[j].filter_type = "ema"
                 /\ filters[j].alpha = <<1, 5>>)
                    => \A i \in 1..Min(fed[k].n, fed[j].n) :
                           fed[k].outs[i] = fed[j].outs[i]

\* a recursive and an exponential smoothing with alpha = 0.2 were given
\* 10 and then 30: both returned 2 and then 7.6
C27_Witness ==
    /\ filters[1].filter_type = "iir"
    /\ filters[2].filter_type = "ema"
    /\ filters[2].alpha = <<1, 5>>
    /\ fed[1].n >= 2
    /\ fed[2].n >= 2
    /\ feed[1] = 10
    /\ feed[2] = 30
    /\ fed[1].outs[1].value = <<2, 1>>
    /\ fed[1].outs[2].value = <<38, 5>>
    /\ fed[2].outs[2].value = <<38, 5>>


(***************************************************************************)
(* winch_torque.py and winch_torque_v2.py: read_torque_loop and the part   *)
(* of main around it.  The two loops differ in the filters only: v2 makes  *)
(* current_filter (instance 1) and torque_filter (instance 2) and passes   *)
(* every reading through them, winch_torque.py has none.  A log entry      *)
(* keeps the values of the code's dictionary without its time field, and,  *)
(* as history, the data of the frame it was made from.                     *)
(***************************************************************************)
\* iterations of the polling loop in a run
MaxPolls == 4

IQ_COMMAND == <<180, 9, 0, 0, 0, 0, 0, 0>>
\* 0.065 Nm/A
TORQUE_CONSTANT == <<13, 200>>

RECURSIVE Pow2(_)
Pow2(n) == IF n <= 0 THEN 1 ELSE 2 * Pow2(n - 1)

\* struct.unpack('<f', bytes(data[4:8]))[0]: the IEEE 754 single whose bytes
\* are data[4..7], least significant first; None when the slice is shorter
\* than 4 bytes (struct.error is caught).  Zero and normal numbers only.
parse_float_from_response(d) ==
    IF Len(d) < 8 THEN None
    ELSE LET sign == IF d[8] >= 128 THEN -1 ELSE 1
             e == 2 * (d[8] % 128) + d[7] \div 128
             m == 65536 * (d[7] % 128) + 256 * d[6] + d[5]
         IN  IF e = 0 /\ m = 0 THEN QZero
             ELSE Frac(sign * (8388608 + m) * Pow2(e - 150), Pow2(150 - e))

\* frames on the bus: answers to IQ_COMMAND carrying 2.5 and -1.0, an answer
\* for another indicator, a frame of another command, an answer cut after
\* three bytes, a frame of one byte and a frame without data
TorqueFrames ==
    { <<180, 9, 0, 0, 0, 0, 32, 64>>,
      <<180, 9, 0, 0, 0, 0, 128, 191>>,
      <<180, 10, 0, 0, 0, 0, 32, 64>>,
      <<148, 9, 0, 0, 0, 0, 32, 64>>,
      <<180, 9, 0>>,
      <<180>>,
      <<>> }

\* the loop logs for every indicator
IsAnyIndicator(d) == TRUE

\* indicator_id == 0x09
IsIq(d) == d[2] = 9

\* the filters of read_torque_loop: RealTimeFilter(filter_type="savgol",
\* window_size=FILTER_WINDOW) twice in v2, none in winch_torque.py
LoopFilters ==
    { [k \in FilterIds |-> NewFilter("savgol", 11, 3, <<1, 5>>)],
      [k \in FilterIds |-> NoFilter] }

InitTorque ==
    /\ InitCommon
    /\ pcM = "idle"
    /\ step = 0
    /\ verdict = <<>>
    /\ StressIdle
    /\ filters \in LoopFilters
    /\ feed = <<>>
    /\ fed = [k \in FilterIds |-> [n |-> 0, outs |-> <<>>]]
    /\ library = "any"
    /\ pcT = "while"
    /\ pcTMain = "waiting"
    /\ tStopEvent = FALSE
    /\ tMessage = <<>>
    /\ data_log = <<>>
    /\ tSent = 0
    /\ tRecvd = 0
    /\ tAllowed = 0

\* what the monitor leaves alone
besideTorque == <<moveVars, verdict, stressVars, feed, library>>

\* while not stop_event.is_set():
TorqueWhile ==
    /\ pcT = "while"
    /\ pcT' = IF tStopEvent THEN "exited" ELSE "send"
    /\ UNCHANGED <<besideTorque, filters, fed, pcTMain, tStopEvent, tMessage,
                   data_log, tSent, tRecvd, tAllowed>>

\* send_message(bus, IQ_COMMAND): the frame is handed to bus.send, which
\* returns or raises; the loop drops the result
TorqueSend ==
    /\ pcT = "send"
    /\ tSent < MaxPolls
    /\ tSent' = IF LengthWrong(IQ_COMMAND) THEN tSent ELSE tSent + 1
    /\ pcT' = "recv"
    /\ UNCHANGED <<besideTorque, filters, fed, pcTMain, tStopEvent, tMessage,
                   data_log, tRecvd, tAllowed>>

\* message = bus.recv(0.2) returns a frame
TorqueRecvFrame(d) ==
    /\ pcT = "recv"
    /\ tMessage' = <<[data |-> d]>>
    /\ tRecvd' = tRecvd + 1
    /\ pcT' = "check"
    /\ UNCHANGED <<besideTorque, filters, fed, pcTMain, tStopEvent, data_log,
                   tSent, tAllowed>>

\* message = bus.recv(0.2) returns None after its timeout
TorqueRecvNone ==
    /\ pcT = "recv"
    /\ tMessage' = <<>>
    /\ tRecvd' = tRecvd + 1
    /\ pcT' = "sleep"
    /\ UNCHANGED <<besideTorque, filters, fed, pcTMain, tStopEvent, data_log,
                   tSent, tAllowed>>

\* bus.recv(0.2) raises: nothing in the thread catches it
TorqueRecvRaise ==
    /\ pcT = "recv"
    /\ tRecvd' = tRecvd + 1
    /\ pcT' = "crashed"
    /\ UNCHANGED <<besideTorque, filters, fed, pcTMain, tStopEvent, tMessage,
                   data_log, tSent, tAllowed>>

\* if message and message.data[0] == 0xB4: indicator_id = message.data[1];
\* if indicator_id == 0x09: current_raw = parse_float_from_response(...);
\* if current_raw is not None.  An index beyond the data raises IndexError.
TorqueCheck ==
    /\ pcT = "check"
    /\ LET d == tMessage[1].data
       IN  pcT' = IF Len(d) = 0 THEN "crashed"
                  ELSE IF d[1] # 180 THEN "sleep"
                  ELSE IF Len(d) < 2 THEN "crashed"
                  ELSE IF ~IsIq(d) THEN "sleep"
                  ELSE IF parse_float_from_response(d) = None THEN "sleep"
                  ELSE "current"
    /\ UNCHANGED <<besideTorque, filters, fed, pcTMain, tStopEvent, tMessage,
                   data_log, tSent, tRecvd, tAllowed>>

\* current = current_filter.update(current_raw)
TorqueCurrent ==
    /\ pcT = "current"
    /\ IF filters[1].filter_type = "-"
       THEN pcT' = "torque" /\ UNCHANGED <<filters, fed>>
       ELSE LET r == update(filters[1], parse_float_from_response(tMessage[1].data))
            IN  /\ filters' = StoreInstance(filters, 1, r.self)
                /\ fed' = [fed EXCEPT ![1] =
                              [n |-> fed[1].n + 1,
                               outs |-> Append(fed[1].outs,
                                               [raised |-> r.raised,
                                                value |-> r.value])]]
                /\ pcT' = IF r.raised THEN "crashed" ELSE "torque"
    /\ UNCHANGED <<besideTorque, pcTMain, tStopEvent, tMessage, data_log, tSent,
                   tRecvd, tAllowed>>

\* torque_raw = current_raw * TORQUE_CONSTANT
torque_raw(d) == QMul(parse_float_from_response(d), TORQUE_CONSTANT)

\* torque = torque_filter.update(torque_raw)
TorqueTorque ==
    /\ pcT = "torque"
    /\ IF filters[2].filter_type = "-"
       THEN pcT' = "log" /\ UNCHANGED <<filters, fed>>
       ELSE LET r == update(filters[2], torque_raw(tMessage[1].data))
            IN  /\ filters' = StoreInstance(filters, 2, r.self)
                /\ fed' = [fed EXCEPT ![2] =
                              [n |-> fed[2].n + 1,
                               outs |-> Append(fed[2].outs,
                                               [raised |-> r.raised,
                                                value |-> r.value])]]
                /\ pcT' = IF r.raised THEN "crashed" ELSE "log"
    /\ UNCHANGED <<besideTorque, pcTMain, tStopEvent, tMessage, data_log, tSent,
                   tRecvd, tAllowed>>

\* what instance k returned last, or x where there is no filter
Filtered(k, x) ==
    IF filters[k].filter_type = "-" THEN x ELSE fed[k].outs[fed[k].n].value

\* data_log.append({...}) and the line printed
TorqueLog ==
    /\ pcT = "log"
    /\ LET d == tMessage[1].data
       IN  data_log' = Append(data_log,
                              [current_raw |-> parse_float_from_response(d),
                               current |-> Filtered(1, parse_float_from_response(d)),
                               torque_raw |-> torque_raw(d),
                               torque |-> Filtered(2, torque_raw(d)),
                               frame |-> d])
    /\ pcT' = "sleep"
    /\ UNCHANGED <<besideTorque, filters, fed, pcTMain, tStopEvent, tMessage,
                   tSent, tRecvd, tAllowed>>

\* time.sleep(POLLING_INTERVAL / 1000)
TorqueSleep ==
    /\ pcT = "sleep"
    /\ pcT' = "while"
    /\ tMessage' = <<>>
    /\ UNCHANGED <<besideTorque, filters, fed, pcTMain, tStopEvent, data_log,
                   tSent, tRecvd, tAllowed>>

\* main: Ctrl-C, or the thread is no longer alive; finally: stop_event.set()
TorqueStop ==
    /\ pcTMain = "waiting"
    /\ tStopEvent' = TRUE
    /\ pcTMain' = "joining"
    /\ tAllowed' = IF pcT = "send" THEN tSent + 1 ELSE tSent
    /\ UNCHANGED <<besideTorque, filters, fed, pcT, tMessage, data_log, tSent,
                   tRecvd>>

\* torque_thread.join(timeout=1.0) with the thread gone, the file and the
\* plot written, bus.shutdown()
TorqueJoin ==
    /\ pcTMain = "joining"
    /\ pcT \in {"exited", "crashed"}
    /\ pcTMain' = "closed"
    /\ UNCHANGED <<besideTorque, filters, fed, pcT, tStopEvent, tMessage,
                   data_log, tSent, tRecvd, tAllowed>>

read_torque_loop ==
    \/ TorqueWhile
    \/ TorqueSend
    \/ \E d \in TorqueFrames : TorqueRecvFrame(d)
    \/ TorqueRecvNone
    \/ TorqueRecvRaise
    \/ TorqueCheck
    \/ TorqueCurrent
    \/ TorqueTorque
    \/ TorqueLog
    \/ TorqueSleep

NextTorque == read_torque_loop \/ TorqueStop \/ TorqueJoin

SpecTorque == InitTorque /\ [][NextTorque]_vars

\* the loop is between two iterations, or has left
AtIterationBoundary == pcT \in {"while", "exited"}

\* C28: each iteration of the polling loop hands one request to the
\* transport and makes exactly one receive; a sample is logged only for a
\* received frame whose bytes 0 and 1 are B4 09; so the samples logged never
\* outnumber the requests sent; between iterations the two filters have
\* been given the same number of values; and once the stop flag is set no
\* request is sent beyond that of the iteration in progress.
C28_PollingLoop ==
    /\ tRecvd <= tSent
    /\ tSent <= tRecvd + 1
    /\ AtIterationBoundary => tSent = tRecvd
    /\ \A i \in 1..Len(data_log) :
        /\ Len(data_log[i].frame) >= 2
        /\ data_log[i].frame[1] = 180
        /\ data_log[i].frame[2] = 9
    /\ Len(data_log) <= tSent
    /\ Len(data_log) <= tRecvd
    /\ AtIterationBoundary => fed[1].n = fed[2].n
    /\ tStopEvent => tSent <= tAllowed

\* v2: two requests were sent, both answered with B4 09 frames and logged,
\* the stop flag was set during the second iteration and the loop has left
C28_Witness ==
    /\ pcT = "exited"
    /\ tStopEvent
    /\ tSent = 2
    /\ tAllowed = 2
    /\ Len(data_log) = 2
    /\ fed[1].n = 2
    /\ fed[2].n = 2
    /\ data_log[1].current_raw = <<5, 2>>
    /\ data_log[2].current_raw = <<-1, 1>>
    /\ data_log[2].torque_raw = <<-13, 200>>

====
